---- MODULE Spec2Model ----
(***************************************************************************)
(* A model of desafioDioRansomware.py: the configuration reader            *)
(* (ler_config_xml), the per-file transforms (encrypt, decrypt), the       *)
(* directory walk (varrer_diretorio_por_config) and the mode dispatch      *)
(* (main).                                                                 *)
(*                                                                         *)
(* Text (paths, file names, XML field text, the command selector) is a     *)
(* sequence of one-character strings, so that str.replace, str.strip,      *)
(* str.lower and Path.suffix are computed character by character.          *)
(***************************************************************************)
EXTENDS Integers, Sequences, FiniteSets, TLC

VARIABLES
    \* ---- the cipher calls (encrypt lines 58-60, decrypt lines 81-82)
    cstage,     \* "start" | "encrypted" | "encrypt_failed" | "decrypted" | "decrypt_failed"
    buf,        \* the byte buffer B handed to the encrypting call
    k1,         \* the key of the encrypting call
    k2,         \* the key of the decrypting call
    ct,         \* the ciphertext the encrypting call returned
    pt,         \* the buffer the decrypting call returned
    consumed,   \* keystream bytes consumed by the calls made so far
    \* ---- ler_config_xml (lines 18-40)
    doc,        \* the configuration document as written: well-formedness, three fields
    loaded,     \* the outcome of ler_config_xml on doc, or NotLoaded
    \* ---- the file system, main and the walk (lines 95-160)
    env,        \* the environment: the selectors given, the I/O faults raised, the runs made
    fs,         \* path -> [kind: "file", data] or [kind: "link", to]
    fs0,        \* the file system before the first run
    fsStart,    \* the file system when the current run started
    pc,         \* "idle" | "walk" | "done" | "error"
    selector,   \* sys.argv[1] of the current run, or NoArg
    mode,       \* the mode main passed to varrer_diretorio_por_config
    pending,    \* the entries the enumeration has still to yield
    found,      \* resolved paths printed as "Encontrado" in the current run
    calls,      \* the encrypt/decrypt calls of the current run
    last,       \* the last encrypt/decrypt call of the current run and how it ended
    runs        \* the runs finished so far: <<[mode, ok]>>

cipherVars == <<cstage, buf, k1, k2, ct, pt, consumed>>
configVars == <<doc, loaded>>
walkVars == <<env, fs, fs0, fsStart, pc, selector, mode, pending, found, calls, last, runs>>
vars == <<cipherVars, configVars, walkVars>>

----------------------------------------------------------------------------
(* Bounds of the model *)

\* a byte has ByteBits bits
ByteBits == 2
\* plaintext buffers given to the cipher calls hold at most MaxLen bytes ...
MaxLen == 2
\* ... each between 0 and MaxPlain
MaxPlain == 1
\* an initial tree holds at most MaxFiles of the candidate entries
MaxFiles == 2
\* main is run at most MaxRuns times
MaxRuns == 2

----------------------------------------------------------------------------
(* Text *)

Max(S) == CHOOSE x \in S : \A y \in S : y <= x

\* the 1-based index of the last c in s, 0 when there is none (str.rfind + 1)
RFind(s, c) == Max({0} \cup {i \in 1..Len(s) : s[i] = c})

EndsWith(s, t) ==
    /\ Len(t) <= Len(s)
    /\ SubSeq(s, Len(s) - Len(t) + 1, Len(s)) = t

MatchAt(s, i, t) ==
    /\ i + Len(t) - 1 <= Len(s)
    /\ SubSeq(s, i, i + Len(t) - 1) = t

Contains(s, t) == \E i \in 1..Len(s) : MatchAt(s, i, t)

\* str.replace(old, ""): the non-overlapping occurrences of old, found left
\* to right, are all removed
RECURSIVE ReplaceFrom(_, _, _)
ReplaceFrom(s, i, old) ==
    IF i > Len(s) THEN <<>>
    ELSE IF MatchAt(s, i, old) THEN ReplaceFrom(s, i + Len(old), old)
    ELSE <<s[i]>> \o ReplaceFrom(s, i + 1, old)

StrReplaceAll(s, old) == ReplaceFrom(s, 1, old)

\* what the docstring of decrypt describes: only the trailing old is removed
StrRemoveSuffix(s, old) ==
    IF EndsWith(s, old) THEN SubSeq(s, 1, Len(s) - Len(old)) ELSE s

UpperCase == <<"C", "D", "E", "N", "P", "R", "T", "U", "Y">>
LowerCase == <<"c", "d", "e", "n", "p", "r", "t", "u", "y">>

\* str.lower on one character
LowerChar(c) ==
    IF \E i \in 1..Len(UpperCase) : UpperCase[i] = c
    THEN LowerCase[CHOOSE i \in 1..Len(UpperCase) : UpperCase[i] = c]
    ELSE c

Lower(s) == [i \in 1..Len(s) |-> LowerChar(s[i])]

RECURSIVE LStrip(_)
LStrip(s) == IF s # <<>> /\ Head(s) = " " THEN LStrip(Tail(s)) ELSE s

RECURSIVE RStrip(_)
RStrip(s) ==
    IF s # <<>> /\ s[Len(s)] = " " THEN RStrip(SubSeq(s, 1, Len(s) - 1)) ELSE s

\* str.strip
Strip(s) == RStrip(LStrip(s))

----------------------------------------------------------------------------
(* The stream cipher: pyaes.AESModeOfOperationCTR, scaled down.  A block is *)
(* one byte of ByteBits bits, a key is two bytes, and the block cipher is a *)
(* keyed permutation of the byte values; distinct keys give distinct       *)
(* permutations.                                                           *)

ByteMod == 2 ^ ByteBits
Byte == 0 .. (ByteMod - 1)

\* the key lengths the cipher accepts (16, 24 and 32 bytes in pyaes)
AESKeySizes == {2}

\* the keys the cipher accepts
Keys == {<<a, b>> : a \in 0 .. ((ByteMod \div 2) - 1), b \in Byte}

\* AES raises ValueError('Invalid key size') for any other key
ValidKey(key) == Len(key) \in AESKeySizes

\* the block cipher: a permutation of Byte for every key
AESBlock(key, x) == ((2 * key[1] + 1) * x + key[2]) % ByteMod

RECURSIVE Xor(_, _)
Xor(a, b) ==
    IF a = 0 /\ b = 0 THEN 0
    ELSE ((a + b) % 2) + 2 * Xor(a \div 2, b \div 2)

\* the counter a cipher instance starts from, Counter(initial_value = 1),
\* whatever the instances built before it have consumed
MutSharedCounter(used) == used + 1
NewCounter(used) == 1

\* the i-th keystream byte of an instance whose counter started at c
KeyStream(key, c, i) == AESBlock(key, (c + i - 1) % ByteMod)

\* the keystream XORed onto the data, byte by byte
CTR(key, c, data) == [i \in 1..Len(data) |-> Xor(data[i], KeyStream(key, c, i))]

\* aes = pyaes.AESModeOfOperationCTR(key); aes.encrypt(file_data)
AESEncrypt(key, used, data) == CTR(key, NewCounter(used), data)

\* aes = pyaes.AESModeOfOperationCTR(key); aes.decrypt(file_data)
MutAESDecryptShared(key, used, data) == CTR(key, MutSharedCounter(used), data)
AESDecrypt(key, used, data) == CTR(key, NewCounter(used), data)

----------------------------------------------------------------------------
(* ler_config_xml *)

\* a child element of the document root: root.find(tag) is None when it is
\* not present; its .text is None when the element holds no text
Elem(present, hastext, text) == [present |-> present, hastext |-> hastext, text |-> text]
NoElem == Elem(FALSE, FALSE, <<>>)
EmptyElem == Elem(TRUE, FALSE, <<>>)
TextElem(t) == Elem(TRUE, TRUE, t)

ScanRoot == <<"/", "r">>

\* str.encode('utf-8'): one byte for an ASCII character, two for a non-ASCII one, written "~"
Utf8Char(c) ==
    CASE c = "a" -> <<0>>
      [] c = "b" -> <<1>>
      [] c = "c" -> <<2>>
      [] c = "~" -> <<3, 2>>
      [] OTHER -> <<3>>

RECURSIVE Utf8(_)
Utf8(s) == IF s = <<>> THEN <<>> ELSE Utf8Char(Head(s)) \o Utf8(Tail(s))

ConfigFailure(kind) ==
    [err |-> kind, scan_path |-> <<>>, recursive |-> FALSE, crypto_key |-> <<>>]

\* lines 18-40, in the order of the code: ET.parse raises ParseError; a
\* missing tag raises ValueError; None.strip() raises AttributeError
ler_config_xml(d) ==
    IF ~d.wellformed THEN ConfigFailure("ParseError")
    ELSE IF ~d.scanPath.present THEN ConfigFailure("ValueError")
    ELSE IF ~d.scanPath.hastext THEN ConfigFailure("AttributeError")
    ELSE IF ~d.recursive.present THEN ConfigFailure("ValueError")
    ELSE IF ~d.recursive.hastext THEN ConfigFailure("AttributeError")
    ELSE IF ~d.cryptoKey.present THEN ConfigFailure("ValueError")
    ELSE IF ~d.cryptoKey.hastext THEN ConfigFailure("AttributeError")
    ELSE [err |-> "none",
          scan_path |-> Strip(d.scanPath.text),
          recursive |-> (Lower(Strip(d.recursive.text)) = <<"t", "r", "u", "e">>),
          crypto_key |-> Utf8(Strip(d.cryptoKey.text))]

NotLoaded == ConfigFailure("pending")

ScanPathTexts == {ScanRoot, <<" ", "/", "r", " ">>, <<" ">>}
RecursiveTexts ==
    {<<"t", "r", "u", "e">>, <<"T", "R", "U", "E">>, <<" ", "T", "r", "u", "e", " ">>,
     <<"y", "e", "s">>, <<" ">>}
CryptoKeyTexts == {<<"a", "b">>, <<" ", "b", "c", " ">>, <<"~", "a">>, <<" ", " ">>}

Elems(texts) == {NoElem, EmptyElem} \cup {TextElem(t) : t \in texts}

Docs ==
    [wellformed : BOOLEAN, scanPath : Elems(ScanPathTexts),
     recursive : Elems(RecursiveTexts), cryptoKey : Elems(CryptoKeyTexts)]

----------------------------------------------------------------------------
(* Paths and the file system *)

Marker ==
    <<".", "r", "a", "n", "s", "o", "m", "w", "a", "r", "e", "t", "r", "o", "l", "l">>

Slash == <<"/">>
Join(dir, name) == dir \o Slash \o name

\* the working directory of the process
Cwd == ScanRoot

\* config_path = "config.xml" (main)
config_path == <<"c", "o", "n", "f", "i", "g", ".", "x", "m", "l">>

\* Path.name: what follows the last "/"
PathName(p) == SubSeq(p, RFind(p, "/") + 1, Len(p))

\* Path.parent
Parent(p) == IF RFind(p, "/") <= 1 THEN Slash ELSE SubSeq(p, 1, RFind(p, "/") - 1)

\* Path.suffix: the name from its last "." on, unless that "." is the first
\* or the last character of the name
Suffix(p) ==
    LET name == PathName(p)
        i == RFind(name, ".")
    IN  IF 1 < i /\ i < Len(name) THEN SubSeq(name, i, Len(name)) ELSE <<>>

\* a relative path is taken from the working directory
Abs(p) == IF p # <<>> /\ p[1] = "/" THEN p ELSE Join(Cwd, p)

FileEntry(data) == [kind |-> "file", data |-> data, to |-> <<>>]
LinkEntry(to) == [kind |-> "link", data |-> <<>>, to |-> to]

\* Path.resolve(): absolute, symbolic links followed
Resolve(f, p) ==
    LET a == Abs(p)
    IN  IF a \in DOMAIN f /\ f[a].kind = "link" THEN f[a].to ELSE a

\* Path.is_file() follows symbolic links
IsFile(f, p) == Resolve(f, p) \in DOMAIN f /\ f[Resolve(f, p)].kind = "file"

SubDir == Join(ScanRoot, <<"d">>)
MarkDir == SubDir \o Marker
OutDir == <<"/", "o">>

\* the directories: the root, the scan root and those that held an entry
\* at the start; the program creates and removes none
Dirs == {Slash, ScanRoot} \cup {Parent(p) : p \in DOMAIN fs0}

\* Path(__file__).resolve()
current_script == Join(Cwd, <<"s", ".", "p", "y">>)

\* Path(xml_path).resolve()
config_file(f) == Resolve(f, config_path)

\* open(p, "rb") succeeds
CanRead(f, p) == IsFile(f, p)

\* os.remove(p) succeeds
CanRemove(f, p) == p \in DOMAIN f

FsRemove(f, p) == [q \in (DOMAIN f) \ {p} |-> f[q]]

\* open(p, "wb") succeeds: p names no directory and its directory exists
CanWrite(f, p) ==
    LET t == Resolve(f, p)
    IN  /\ t \notin Dirs
        /\ PathName(t) # <<>>
        /\ Parent(t) \in Dirs

\* open(p, "wb") and write: through a symbolic link, to its target
FsWrite(f, p, data) == (Resolve(f, p) :> FileEntry(data)) @@ f

----------------------------------------------------------------------------
(* encrypt and decrypt *)

\* the I/O errors the environment can raise in a call
Faults == {"none", "read", "remove", "open", "write"}

Outcome(f, err, src, dst, n) == [fs |-> f, err |-> err, src |-> src, dst |-> dst, used |-> n]

\* line 63
EncryptedName(file_name) == file_name \o Marker

\* line 88
MutDecryptedNameKept(file_name) == file_name
DecryptedName(file_name) == StrReplaceAll(file_name, Marker)

\* lines 51-65: read, remove, cipher, write
encrypt(f, file_name, key, used, fault) ==
    LET new_file_name == EncryptedName(file_name)
        f1 == FsRemove(f, file_name)
    IN  IF fault = "read" \/ ~CanRead(f, file_name)
        THEN Outcome(f, "read", file_name, new_file_name, used)
        ELSE IF fault = "remove" \/ ~CanRemove(f, file_name)
        THEN Outcome(f, "remove", file_name, new_file_name, used)
        ELSE IF ~ValidKey(key)
        THEN Outcome(f1, "cipher", file_name, new_file_name, used)
        ELSE IF fault = "open" \/ ~CanWrite(f1, new_file_name)
        THEN Outcome(f1, "open", file_name, new_file_name,
                     used + Len(f[file_name].data))
        ELSE IF fault = "write"
        THEN Outcome(FsWrite(f1, new_file_name, <<>>), "write", file_name,
                     new_file_name, used + Len(f[file_name].data))
        ELSE Outcome(FsWrite(f1, new_file_name,
                             AESEncrypt(key, used, f[file_name].data)),
                     "none", file_name, new_file_name,
                     used + Len(f[file_name].data))

\* lines 78-91: read, cipher, remove, write
decrypt(f, file_name, key, used, fault) ==
    LET new_file_name == DecryptedName(file_name)
        f1 == FsRemove(f, file_name)
    IN  IF fault = "read" \/ ~CanRead(f, file_name)
        THEN Outcome(f, "read", file_name, new_file_name, used)
        ELSE IF ~ValidKey(key)
        THEN Outcome(f, "cipher", file_name, new_file_name, used)
        ELSE IF fault = "remove" \/ ~CanRemove(f, file_name)
        THEN Outcome(f, "remove", file_name, new_file_name,
                     used + Len(f[file_name].data))
        ELSE IF fault = "open" \/ ~CanWrite(f1, new_file_name)
        THEN Outcome(f1, "open", file_name, new_file_name,
                     used + Len(f[file_name].data))
        ELSE IF fault = "write"
        THEN Outcome(FsWrite(f1, new_file_name, <<>>), "write", file_name,
                     new_file_name, used + Len(f[file_name].data))
        ELSE Outcome(FsWrite(f1, new_file_name,
                             AESDecrypt(key, used, f[file_name].data)),
                     "none", file_name, new_file_name,
                     used + Len(f[file_name].data))

----------------------------------------------------------------------------
(* main and varrer_diretorio_por_config *)

\* sys.argv[1], when len(sys.argv) > 1
Arg(text) == [given |-> TRUE, text |-> text]
NoArg == [given |-> FALSE, text |-> <<>>]

EncryptWord == <<"e", "n", "c", "r", "y", "p", "t">>
DecryptWord == <<"d", "e", "c", "r", "y", "p", "t">>

Selectors ==
    {NoArg, Arg(EncryptWord), Arg(<<"E", "N", "C", "R", "Y", "P", "T">>),
     Arg(DecryptWord), Arg(<<"D", "e", "c", "r", "y", "p", "t">>),
     Arg(<<"l", "i", "s", "t">>)}

\* lines 145-160: the mode main passes on
MutModeOfExact(sel) ==
    IF sel.given /\ sel.text = EncryptWord THEN "encrypt"
    ELSE IF sel.given /\ sel.text = DecryptWord THEN "decrypt"
    ELSE "list"
ModeOf(sel) ==
    IF sel.given /\ Lower(sel.text) = EncryptWord THEN "encrypt"
    ELSE IF sel.given /\ Lower(sel.text) = DecryptWord THEN "decrypt"
    ELSE "list"

\* p lies below the directory root
Under(p, root) == MatchAt(p, 1, root \o Slash) /\ Len(p) > Len(root) + 1

\* lines 110, 118: what p.rglob('*') or p.glob('*') enumerates
Items(f, root, recursive) ==
    {p \in (DOMAIN f) \cup Dirs :
        /\ Under(p, root)
        /\ recursive \/ Parent(p) = root}

\* line 122
MutExcludedUnresolved(f, item) ==
    Abs(item) = current_script \/ Abs(item) = Abs(config_path)
Excluded(f, item) ==
    Resolve(f, item) = current_script \/ Resolve(f, item) = config_file(f)

\* line 129
MutWantsEncryptAny(m, item) == m = "encrypt"
WantsEncrypt(m, item) == m = "encrypt" /\ Suffix(item) # Marker

\* line 133
WantsDecrypt(m, item) == m = "decrypt" /\ Suffix(item) = Marker

\* the bytes of the configuration document as first written
ConfigBytes == <<2, 1>>

\* line 109: ler_config_xml on the file at config_path
LoadConfig(f) ==
    IF ~CanRead(f, Abs(config_path)) THEN ConfigFailure("FileNotFoundError")
    ELSE IF f[Resolve(f, config_path)].data # ConfigBytes THEN ConfigFailure("ParseError")
    ELSE ler_config_xml(doc)

NoCall == [op |-> "none", item |-> <<>>, src |-> <<>>, dst |-> <<>>, err |-> "none"]
Call(op, item, r) == [op |-> op, item |-> item, src |-> r.src, dst |-> r.dst, err |-> r.err]

\* main: one run of the program, up to the first entry of the walk
Main(sel) ==
    /\ pc \in {"idle", "done", "error"}
    /\ Len(runs) < env.runs
    /\ selector' = sel
    /\ mode' = ModeOf(sel)
    /\ loaded' = LoadConfig(fs)
    /\ fsStart' = fs
    /\ found' = {}
    /\ calls' = {}
    /\ last' = NoCall
    /\ consumed' = 0
    /\ IF loaded'.err = "none"
       THEN /\ pc' = "walk"
            /\ pending' = Items(fs, loaded'.scan_path, loaded'.recursive)
            /\ runs' = runs
       ELSE /\ pc' = "error"
            /\ pending' = {}
            /\ runs' = Append(runs, [mode |-> mode', ok |-> FALSE])
    /\ UNCHANGED <<env, fs, fs0, doc, cstage, buf, k1, k2, ct, pt>>

\* lines 120-125: an entry that is excluded or is no file
VisitSkipped(item) ==
    /\ pc = "walk"
    /\ item \in pending
    /\ Excluded(fs, item) \/ ~IsFile(fs, item)
    /\ pending' = pending \ {item}
    /\ UNCHANGED <<env, fs, fs0, fsStart, pc, selector, mode, found, calls, last, runs,
                   doc, loaded, cipherVars>>

\* lines 125-134: a file that the mode leaves alone
VisitListed(item) ==
    /\ pc = "walk"
    /\ item \in pending
    /\ ~Excluded(fs, item) /\ IsFile(fs, item)
    /\ ~WantsEncrypt(mode, item) /\ ~WantsDecrypt(mode, item)
    /\ found' = found \cup {Resolve(fs, item)}
    /\ pending' = pending \ {item}
    /\ UNCHANGED <<env, fs, fs0, fsStart, pc, selector, mode, calls, last, runs,
                   doc, loaded, cipherVars>>

\* the effect of one encrypt or decrypt call on the walk: an error ends the
\* run; a path the call created may still be yielded by the enumeration
Transformed(op, item, r, late) ==
    /\ fs' = r.fs
    /\ consumed' = r.used
    /\ found' = found \cup {r.src}
    /\ calls' = calls \cup {Call(op, item, r)}
    /\ last' = Call(op, item, r)
    /\ IF r.err = "none"
       THEN /\ pc' = pc
            /\ late \subseteq
                 ({r.dst} \cap Items(r.fs, loaded.scan_path, loaded.recursive))
                    \ (DOMAIN fs)
            /\ pending' = (pending \ {item}) \cup late
            /\ runs' = runs
       ELSE /\ pc' = "error"
            /\ late = {}
            /\ pending' = {}
            /\ runs' = Append(runs, [mode |-> mode, ok |-> FALSE])
    /\ UNCHANGED <<env, fs0, fsStart, selector, mode, doc, loaded, cstage, buf, k1, k2, ct, pt>>

\* lines 129-130
VisitEncrypt(item, fault, late) ==
    /\ pc = "walk"
    /\ item \in pending
    /\ ~Excluded(fs, item) /\ IsFile(fs, item)
    /\ WantsEncrypt(mode, item)
    /\ Transformed("encrypt", item,
                   encrypt(fs, Resolve(fs, item), loaded.crypto_key, consumed, fault),
                   late)

\* lines 133-134
VisitDecrypt(item, fault, late) ==
    /\ pc = "walk"
    /\ item \in pending
    /\ ~Excluded(fs, item) /\ IsFile(fs, item)
    /\ WantsDecrypt(mode, item)
    /\ Transformed("decrypt", item,
                   decrypt(fs, Resolve(fs, item), loaded.crypto_key, consumed, fault),
                   late)

\* the enumeration is exhausted
Finish ==
    /\ pc = "walk"
    /\ pending = {}
    /\ pc' = "done"
    /\ runs' = Append(runs, [mode |-> mode, ok |-> TRUE])
    /\ UNCHANGED <<env, fs, fs0, fsStart, selector, mode, pending, found, calls, last,
                   doc, loaded, cipherVars>>

----------------------------------------------------------------------------
(* The initial file trees *)

FA == Join(ScanRoot, <<"a">>)
FAM == FA \o Marker
FDot == Join(ScanRoot, Marker)
FSub == Join(SubDir, <<"a">>)
FMark == Join(MarkDir, <<"a">>)
FCfgM == Abs(config_path) \o Marker
LCfg == Join(ScanRoot, <<"l">>)
LOut == Join(ScanRoot, <<"k">>)
OutFile == Join(OutDir, <<"x">>)

\* what every tree holds
Base ==
    (Abs(config_path) :> FileEntry(ConfigBytes))
    @@ (current_script :> FileEntry(<<1, 1>>))
    @@ (OutFile :> FileEntry(<<3, 0>>))

\* what a tree may hold
Candidate ==
    (FA :> FileEntry(<<1, 2>>))
    @@ (FAM :> FileEntry(<<3>>))
    @@ (FDot :> FileEntry(<<2>>))
    @@ (FSub :> FileEntry(<<0, 3>>))
    @@ (FMark :> FileEntry(<<2, 2>>))
    @@ (FCfgM :> FileEntry(<<1>>))
    @@ (LCfg :> LinkEntry(Abs(config_path)))
    @@ (LOut :> LinkEntry(OutFile))

Trees(n) ==
    {[p \in S \cup DOMAIN Base |-> IF p \in DOMAIN Base THEN Base[p] ELSE Candidate[p]] :
        S \in {T \in SUBSET (DOMAIN Candidate) : Cardinality(T) <= n}}

\* the configuration documents of the walks
WalkDocs ==
    [wellformed : {TRUE}, scanPath : {TextElem(ScanRoot)},
     recursive : {TextElem(<<"t", "r", "u", "e">>), TextElem(<<"y", "e", "s">>)},
     cryptoKey : {TextElem(<<"a", "b">>), TextElem(<<"~", "a">>), NoElem}]

----------------------------------------------------------------------------
(* The specifications *)

CipherOff ==
    /\ cstage = "off" /\ buf = <<>> /\ k1 = <<>> /\ k2 = <<>>
    /\ ct = <<>> /\ pt = <<>>

ConfigOff ==
    /\ doc = [wellformed |-> FALSE, scanPath |-> NoElem, recursive |-> NoElem,
              cryptoKey |-> NoElem]
    /\ loaded = NotLoaded

WalkOff ==
    /\ env = [selectors |-> {}, faults |-> {}, runs |-> 0]
    /\ fs = <<>> /\ fs0 = <<>> /\ fsStart = <<>>
    /\ pc = "off" /\ selector = NoArg /\ mode = "list"
    /\ pending = {} /\ found = {} /\ calls = {} /\ last = NoCall /\ runs = <<>>

\* the program run over a tree of at most n candidate entries, in the
\* environment e
WalkInit(e, n) ==
    /\ CipherOff
    /\ consumed = 0
    /\ doc \in WalkDocs
    /\ loaded = NotLoaded
    /\ env = e
    /\ fs \in Trees(n)
    /\ fs0 = fs
    /\ fsStart = fs
    /\ pc = "idle"
    /\ selector = NoArg
    /\ mode = "list"
    /\ pending = {}
    /\ found = {}
    /\ calls = {}
    /\ last = NoCall
    /\ runs = <<>>

Next ==
    \/ \E sel \in env.selectors : Main(sel)
    \/ \E item \in pending : VisitSkipped(item)
    \/ \E item \in pending : VisitListed(item)
    \/ \E item \in pending, fault \in env.faults :
          \E late \in SUBSET {EncryptedName(Resolve(fs, item))} :
              VisitEncrypt(item, fault, late)
    \/ \E item \in pending, fault \in env.faults :
          \E late \in SUBSET {DecryptedName(Resolve(fs, item))} :
              VisitDecrypt(item, fault, late)
    \/ Finish

\* up to MaxRuns encrypt and decrypt runs, one after the other, without I/O
\* faults
Init == WalkInit([selectors |-> {Arg(EncryptWord), Arg(DecryptWord)},
                  faults |-> {"none"}, runs |-> MaxRuns], MaxFiles)

Spec == Init /\ [][Next]_vars

\* one run, with any selector, without I/O faults
MainInit == WalkInit([selectors |-> Selectors, faults |-> {"none"}, runs |-> 1],
                     MaxFiles)

SpecMain == MainInit /\ [][Next]_vars

\* one encrypt or decrypt run with I/O faults
FaultsInit == WalkInit([selectors |-> {Arg(EncryptWord), Arg(DecryptWord)},
                        faults |-> Faults, runs |-> 1], MaxFiles)

SpecFaults == FaultsInit /\ [][Next]_vars

\* the cipher calls on their own: a buffer encrypted, the result decrypted
Buffers == UNION {[1..n -> 0..MaxPlain] : n \in 0..MaxLen}

\* a key the cipher refuses
ShortKey == <<1>>

CipherInit ==
    /\ cstage = "start"
    /\ buf \in Buffers
    /\ k1 \in Keys \cup {ShortKey}
    /\ k2 \in Keys \cup {ShortKey}
    /\ ct = <<>>
    /\ pt = <<>>
    /\ consumed = 0
    /\ ConfigOff
    /\ WalkOff

\* lines 59-60
CipherEncrypt ==
    /\ cstage = "start"
    /\ IF ValidKey(k1)
       THEN /\ ct' = AESEncrypt(k1, consumed, buf)
            /\ consumed' = consumed + Len(buf)
            /\ cstage' = "encrypted"
       ELSE /\ cstage' = "encrypt_failed"
            /\ UNCHANGED <<ct, consumed>>
    /\ UNCHANGED <<buf, k1, k2, pt, configVars, walkVars>>

\* lines 81-82
CipherDecrypt ==
    /\ cstage = "encrypted"
    /\ IF ValidKey(k2)
       THEN /\ pt' = AESDecrypt(k2, consumed, ct)
            /\ consumed' = consumed + Len(ct)
            /\ cstage' = "decrypted"
       ELSE /\ cstage' = "decrypt_failed"
            /\ UNCHANGED <<pt, consumed>>
    /\ UNCHANGED <<buf, k1, k2, ct, configVars, walkVars>>

CipherNext == CipherEncrypt \/ CipherDecrypt

SpecCipher == CipherInit /\ [][CipherNext]_vars

\* ler_config_xml on its own, over the documents
ConfigInit ==
    /\ doc \in Docs
    /\ loaded = NotLoaded
    /\ consumed = 0
    /\ CipherOff
    /\ WalkOff

Load ==
    /\ loaded = NotLoaded
    /\ loaded' = ler_config_xml(doc)
    /\ UNCHANGED <<doc, cipherVars, walkVars>>

ConfigNext == Load

SpecConfig == ConfigInit /\ [][ConfigNext]_vars

----------------------------------------------------------------------------
(* The claims *)

\* C1: whatever the buffer B and the key K, decrypting with K what encrypt
\* returned for B under K gives B back; each call builds its own cipher
\* instance, so the keystream of the second call starts where that of the
\* first one started.
C1_RoundTrip == (cstage = "decrypted" /\ k1 = k2) => pt = buf

\* a two-byte buffer went through both calls under one key
C1_Witness == cstage = "decrypted" /\ k1 = k2 /\ Len(buf) = 2 /\ ct # buf

\* the keystreams of two keys differ somewhere in their first n bytes
KeyStreamsDiffer(ka, kb, n) ==
    \E i \in 1..n : KeyStream(ka, 1, i) # KeyStream(kb, 1, i)

DecryptTried == cstage \in {"decrypted", "decrypt_failed"}

\* C8 as stated: for every buffer B and keys K1 # K2 (keys the cipher
\* accepts), decrypting encrypt(B, K1) with K2 raises no error and gives a
\* buffer other than B.
C8_WrongKeyDiffers ==
    (DecryptTried /\ k1 # k2 /\ ValidKey(k2)) => (cstage = "decrypted" /\ pt # buf)

\* C8 as amended: for every buffer B and keys K1 # K2 that the cipher
\* accepts, decrypting encrypt(B, K1) with K2 raises no error and gives a
\* buffer as long as B, which differs from B exactly when the keystreams of
\* K1 and K2 differ within the first len(B) bytes (never for the empty B).
C8_WrongKeySilent ==
    (DecryptTried /\ k1 # k2 /\ ValidKey(k2)) =>
        /\ cstage = "decrypted"
        /\ Len(pt) = Len(buf)
        /\ (pt # buf) <=> KeyStreamsDiffer(k1, k2, Len(buf))

\* a non-empty buffer was decrypted with another key, to another buffer
C8_Witness == cstage = "decrypted" /\ k1 # k2 /\ buf # <<>> /\ pt # buf

\* the element is present with text that is more than white space
NonEmpty(e) == e.present /\ e.hastext /\ Strip(e.text) # <<>>

\* C6: loading succeeds only when scanPath, recursive and cryptoKey are all
\* present and non-empty; with one of them absent, without text or with
\* white space only, loading fails and returns no triple.
C6_LoadNeedsAllFields ==
    (loaded.err # "pending") =>
        ((loaded.err = "none") <=>
            /\ doc.wellformed
            /\ NonEmpty(doc.scanPath)
            /\ NonEmpty(doc.recursive)
            /\ NonEmpty(doc.cryptoKey))

\* C2: encrypt(p) writes to p + ".ransomwaretroll", and decrypt of a path
\* that ends with the marker writes to that path less its trailing marker,
\* wherever else the marker text occurs in the path.
C2_Naming ==
    /\ (last.op = "encrypt" /\ last.err = "none") => (last.dst = last.src \o Marker)
    /\ (last.op = "decrypt" /\ last.err = "none" /\ EndsWith(last.src, Marker)) =>
           (last.dst = StrRemoveSuffix(last.src, Marker))

\* C3: once an encrypt or decrypt call has ended in an error, the original
\* file is not gone from disk while the replacement does not exist.
C3_NoLossOnError ==
    (last.err # "none") => (last.src \in DOMAIN fs \/ last.dst \in DOMAIN fs)

\* C4: in every mode, recursive or not, an entry whose resolved path is the
\* configuration document's or the running script's is never reported as
\* found and never passed to encrypt or decrypt.
C4_ExcludedUntouched ==
    \A x \in found \cup {c.src : c \in calls} :
        x # current_script /\ x # config_file(fs)

\* an encrypt walk ended over a tree that holds a link to the configuration
\* document, beside the document and the script themselves
C4_Witness ==
    /\ pc = "done" /\ mode = "encrypt" /\ calls # {}
    /\ LCfg \in DOMAIN fsStart
    /\ {current_script, Abs(config_path)} \subseteq Items(fsStart, ScanRoot, FALSE)

WalkRan == pc \in {"walk", "done"} \/ (pc = "error" /\ loaded.err = "none")

\* the entries of f the walk takes for files to treat
Candidates(f) ==
    {item \in Items(f, loaded.scan_path, loaded.recursive) :
        IsFile(f, item) /\ ~Excluded(f, item)}

\* C5 as stated: an encrypt walk never calls encrypt on a file whose name
\* ends with the marker, so over a tree whose candidate files all have names
\* ending with the marker it changes nothing.
C5_NoReEncryptByName ==
    /\ \A c \in calls : (c.op = "encrypt") => ~EndsWith(PathName(c.src), Marker)
    /\ (WalkRan /\ mode = "encrypt"
        /\ \A item \in Candidates(fsStart) :
               EndsWith(PathName(Resolve(fsStart, item)), Marker))
          => (fs = fsStart)

\* C5 as amended: an encrypt walk never calls encrypt for an entry whose
\* Path.suffix is the marker (the entry's own name ends with the marker and
\* is longer than it), the marked files it created earlier in the pass
\* included, so over a tree whose candidate entries all have that suffix it
\* changes nothing.
C5_NoReEncryptBySuffix ==
    /\ \A c \in calls : (c.op = "encrypt") => (Suffix(c.item) # Marker)
    /\ (WalkRan /\ mode = "encrypt"
        /\ \A item \in Candidates(fsStart) : Suffix(item) = Marker)
          => (fs = fsStart)

\* a second encrypt walk ended over the tree the first one had marked
C5_Witness ==
    /\ pc = "done" /\ mode = "encrypt"
    /\ runs = <<[mode |-> "encrypt", ok |-> TRUE], [mode |-> "encrypt", ok |-> TRUE]>>
    /\ FA \in DOMAIN fs0
    /\ FAM \in DOMAIN fsStart
    /\ fs = fsStart

\* C7 as stated: exactly "encrypt" gives encrypt mode, exactly "decrypt"
\* gives decrypt mode, anything else (no argument, "ENCRYPT") gives list
\* mode, and list mode deletes, creates and modifies no file.
C7_ExactSelector ==
    (pc # "idle") =>
        /\ (mode = "encrypt") <=> (selector = Arg(EncryptWord))
        /\ (mode = "decrypt") <=> (selector = Arg(DecryptWord))
        /\ (mode = "list") => (fs = fsStart)

\* C7 as amended: the selector is compared in lower case: any casing of
\* "encrypt" gives encrypt mode, any casing of "decrypt" gives decrypt mode,
\* anything else (no argument included) gives list mode, and list mode
\* deletes, creates and modifies no file.
C7_LowerCasedSelector ==
    (pc # "idle") =>
        /\ (mode = "encrypt") <=> (selector.given /\ Lower(selector.text) = EncryptWord)
        /\ (mode = "decrypt") <=> (selector.given /\ Lower(selector.text) = DecryptWord)
        /\ (mode \notin {"encrypt", "decrypt"}) => (mode = "list" /\ fs = fsStart)

\* a walk ended that "ENCRYPT" had started, files encrypted
C7_Witness ==
    /\ pc = "done"
    /\ selector = Arg(<<"E", "N", "C", "R", "Y", "P", "T">>)
    /\ mode = "encrypt"
    /\ fs # fsStart

\* what reading the path p gives: the bytes of the file there, if any
ReadAt(f, p) == IF IsFile(f, p) THEN <<f[Resolve(f, p)].data>> ELSE <<>>

\* the paths below the scan root, each with what reading it gives
TreeOf(f) == [p \in {q \in DOMAIN f : Under(q, ScanRoot)} |-> ReadAt(f, p)]

EncryptThenDecrypt ==
    /\ pc = "done"
    /\ runs = <<[mode |-> "encrypt", ok |-> TRUE], [mode |-> "decrypt", ok |-> TRUE]>>

\* C9 as stated: whatever the initial tree, an error-free encrypt walk
\* followed by an error-free decrypt walk leaves the tree with the paths and
\* the contents it had.
C9_WalksRoundTrip == EncryptThenDecrypt => (TreeOf(fs) = TreeOf(fs0))

\* every entry below the scan root is a regular file whose path does not
\* hold the marker text
PlainTree(f) ==
    \A p \in DOMAIN f :
        Under(p, ScanRoot) => (f[p].kind = "file" /\ ~Contains(p, Marker))

\* C9 as amended: for an initial tree of regular files none of whose paths
\* holds the marker text, an error-free encrypt walk followed by an
\* error-free decrypt walk leaves the tree with the paths and the contents it
\* had.
C9_PlainWalksRoundTrip ==
    (EncryptThenDecrypt /\ PlainTree(fs0)) => (TreeOf(fs) = TreeOf(fs0))

\* both walks ended over a plain tree of two files, one in a subdirectory
C9_Witness ==
    /\ EncryptThenDecrypt /\ PlainTree(fs0)
    /\ {FA, FSub} \subseteq DOMAIN fs0
    /\ loaded.recursive
    /\ \E c \in calls : c.op = "decrypt" /\ c.dst = FSub

\* C10: in every mode the configuration document and the running script
\* keep the content they had: no call of a walk writes to either path.
C10_ExcludedKeepContent ==
    \A p \in {Abs(config_path), current_script} :
        p \in DOMAIN fs /\ fs[p] = fs0[p]

====
